---- MODULE Spec2Model ----
(***************************************************************************)
(* Fast42: the rate-aware client of src/src/index.ts (class api42).        *)
(* The file holds the TypeScript source (lines 1-244) and the compiled     *)
(* CommonJS build of an older revision (lines 246-438); an instance runs   *)
(* one of the two, which the variable `compiled` records.                  *)
(*                                                                         *)
(* Indices are the source's: credentials and cache keys are 0-based,       *)
(* `_limiters` is a list whose element for credential i is _limiters[i+1]. *)
(* Times are milliseconds on the local clock `now`.                        *)
(***************************************************************************)
EXTENDS Integers, Sequences, FiniteSets, TLC

(***************************************************************************)
(* Bounds of the model.                                                    *)
(***************************************************************************)
MaxKeys == 2
MaxOffset == 2
MaxSecondly == 4
MaxHourly == 2
MaxCalls == 3
MaxTicks == 2
MaxTotalSteps == 5
MaxStart == 2
MaxLimiters == 3

(***************************************************************************)
(* Program constants.                                                      *)
(***************************************************************************)
reservoirRefreshInterval == 1000 * 60 * 60
minTimeMargin == 25
DefaultPageSize == 100
jobExpiration == 20000

\* What the token endpoint may answer as expires_in (seconds).
ExpiresIn == {40}
\* The step by which the clock is observed between timers (ms).
TickStep == 20 * 1000

\* x-total values the upstream may report, and the absent header.
NoTotal == -1
TotalItems == {n * (DefaultPageSize \div 2) : n \in 0..MaxTotalSteps}

NoToken == [storedAt |-> -1, expires_in |-> 0]
Unset == 0 - 1

VARIABLES
    compiled,          \* TRUE: the instance runs the compiled variant
    _keyCount,         \* this._keyCount
    _concurrentOffset, \* the constructor's concurrentOffset argument
    _currentIndex,     \* this._currentIndex
    _limiters,         \* this._limiters
    _cache,            \* this._cache: credential index -> token
    initPc,            \* where init() is
    initIndex,         \* init()'s loop variable
    calls,             \* every job and traffic call made so far
    pager,             \* the getAllPages call
    upstream,          \* what the probe of each credential reports
    now,               \* local clock, ms since init() was called
    ticks              \* how often the clock was observed to advance

vars == <<compiled, _keyCount, _concurrentOffset, _currentIndex, _limiters,
          _cache, initPc, initIndex, calls, pager, upstream, now, ticks>>

Min(a, b) == IF a < b THEN a ELSE b
Max(a, b) == IF a > b THEN a ELSE b

(***************************************************************************)
(* createLimiter                                                           *)
(***************************************************************************)
\* Mutant: the spacing without the margin.
minTimeExact(secondly_limit) == 1000 \div secondly_limit

\* Math.trunc(1000 / secondly_limit) + 25
minTime(secondly_limit) == (1000 \div secondly_limit) + minTimeMargin

\* maxConcurrent: secondly_limit - concurrentOffset (source),
\*                secondly_limit - 1                (compiled variant)
maxConcurrent(secondly_limit, concurrentOffset, isCompiled) ==
    IF isCompiled THEN secondly_limit - 1
    ELSE secondly_limit - concurrentOffset

\* Mutant: the reservoir starts full, at hourly_limit.
initialReservoirFull(limit) == limit.hourly_limit

\* reservoir: limit.hourly_remaining
initialReservoir(limit) == limit.hourly_remaining

createLimiter(limit, concurrentOffset, isCompiled) ==
    [ reservoir              |-> initialReservoir(limit),
      reservoirRefreshAmount |-> limit.hourly_limit,
      maxConcurrent          |-> maxConcurrent(limit.secondly_limit,
                                               concurrentOffset, isCompiled),
      minTime                |-> minTime(limit.secondly_limit),
      running                |-> 0,
      nextRequest            |-> now,
      lastReservoirRefresh   |-> now,
      queue                  |-> << >>,
      created                |-> now,
      refills                |-> 0,
      limit                  |-> limit ]

\* The quotas a probe may discover: with an hourly quota no call of the
\* model exhausts, and with a small one. The per-second limit is above
\* every offset the model constructs with.
AmpleQuotas ==
    { [ secondly_limit |-> l, hourly_limit |-> MaxCalls + 1,
        hourly_remaining |-> MaxCalls + 1 ] : l \in (MaxOffset + 1)..MaxSecondly }

\* getRateLimits: what the probe made with credential i's token reports,
\* x-application-id among it.
rateLimits(i, q) ==
    [ id |-> i, secondly_limit |-> q.secondly_limit,
      hourly_limit |-> q.hourly_limit, hourly_remaining |-> q.hourly_remaining ]

ScarceQuotas ==
    { q \in [ secondly_limit   : {MaxSecondly},
              hourly_limit     : 1..MaxHourly,
              hourly_remaining : 0..MaxHourly ] :
        q.hourly_remaining <= q.hourly_limit }

(***************************************************************************)
(* Token cache (node-cache) and the grant exchange                         *)
(***************************************************************************)
\* storeToken: this._cache.set(key, accessToken, accessToken.expires_in);
\* node-cache keeps the entry until storedAt + ttl * 1000.
cacheTtl(accessToken) == accessToken.expires_in

expiresAt(accessToken) == accessToken.storedAt + cacheTtl(accessToken) * 1000

storeToken(cache, accessToken, index) == [cache EXCEPT ![index] = accessToken]

\* this._cache.get(key): undefined when absent or when its time has passed
\* (node-cache drops an entry once its expiry time is less than Date.now()).
cacheGet(cache, index) ==
    IF cache[index] # NoToken /\ ~(expiresAt(cache[index]) < now)
    THEN cache[index] ELSE NoToken

\* The token a successful grant exchange returns now.
GrantedTokens == { [storedAt |-> now, expires_in |-> e] : e \in ExpiresIn }

(***************************************************************************)
(* Round-robin cursor                                                      *)
(***************************************************************************)
\* Mutant: the cursor stops at the last index instead of wrapping to 0.
getCurrentIndexAndSetNextNoWrap(currentIndex, keyCount) ==
    IF currentIndex = keyCount - 1 THEN currentIndex ELSE currentIndex + 1

\* getCurrentIndexAndSetNext returns the cursor and leaves this behind.
getCurrentIndexAndSetNext(currentIndex, keyCount) ==
    IF currentIndex = keyCount - 1 THEN 0 ELSE currentIndex + 1

(***************************************************************************)
(* Jobs and the limiter (bottleneck, local datastore)                      *)
(***************************************************************************)
\* st: "grant"            retrieveToken awaits the grant exchange
\*     "resolved"         retrieveToken has returned the cached token; get()
\*                        resumes with the next microtask
\*     "queued"           in the limiter's queue
\*     "scheduled"        registered by the limiter, waiting for its start
\*     "executing"        the job function runs (the transport call is out)
\*     "done"             the job's promise is settled with resp
\*     "notInitialized"   get() threw the not-initialized error
\*     "noLimiter"        this._limiters[index] was undefined: TypeError
\*     "authError"        the grant exchange failed
newCall(kind, page, index, st, viaPager) ==
    [ kind |-> kind, page |-> page, index |-> index, st |-> st,
      token |-> NoToken, hit |-> FALSE, ready |-> (initPc = "done"),
      age |-> Unset, submitAt |-> Unset, admitAt |-> Unset,
      startAt |-> Unset, cycle |-> Unset, resp |-> "none",
      viaPager |-> viaPager, fetches |-> 0, opts |-> "own", url |-> Unset ]

\* computeCapacity: min(maxConcurrent - running, reservoir)
computeCapacity(lim) == Min(lim.maxConcurrent - lim.running, lim.reservoir)

\* One job of weight 1 can be registered.
conditionsCheck(lim) == 1 <= computeCapacity(lim)

\* Mutant: the next start is not pushed back by minTime.
registerUnspaced(lim, wait) ==
    [lim EXCEPT !.running = @ + 1,
                !.reservoir = @ - 1,
                !.nextRequest = now + wait,
                !.queue = Tail(@)]

\* __register__: the running count, the reservoir and the next start time
\* after a job is registered.
register(lim, wait) ==
    [lim EXCEPT !.running = @ + 1,
                !.reservoir = @ - 1,
                !.nextRequest = now + wait + lim.minTime,
                !.queue = Tail(@)]

\* Mutant: a settled job keeps its slot.
freeKeeping(lims, index) == lims

\* __free__: the job's slot is given back when its promise settles.
free(lims, index) == [lims EXCEPT ![index + 1].running = @ - 1]

\* The job function is invoked. The compensation job resolves at once and
\* frees its slot; a request's fetch(url, Bearer token) goes out, which
\* fetches counts.
execute(s, id) ==
    IF s.calls[id].kind = "noop"
    THEN [s EXCEPT !.calls[id].st = "done", !.calls[id].resp = "ok",
                   !.lims = free(@, s.calls[id].index)]
    ELSE [s EXCEPT !.calls[id].st = "executing", !.calls[id].fetches = @ + 1]

\* _drainAll: while the first queued job can be registered, it is, and is
\* set to start once the spacing to the previous start has passed.
RECURSIVE drainAll(_, _)
drainAll(s, i) ==
    LET lim == s.lims[i] IN
    IF lim.queue = << >> \/ ~conditionsCheck(lim) THEN s
    ELSE LET id == Head(lim.queue)
             wait == Max(lim.nextRequest - now, 0)
             s1 == [s EXCEPT !.lims[i] = register(lim, wait),
                             !.calls[id].st = "scheduled",
                             !.calls[id].admitAt = now,
                             !.calls[id].cycle = lim.refills,
                             !.calls[id].startAt = now + wait]
         IN  drainAll(IF wait = 0 THEN execute(s1, id) ELSE s1, i)

\* limiter.schedule(job): the job joins the limiter's queue, which drains.
schedule(s, id, index) ==
    drainAll([s EXCEPT !.lims[index + 1].queue = Append(@, id),
                       !.calls[id].st = "queued",
                       !.calls[id].submitAt = now],
             index + 1)

(***************************************************************************)
(* get()                                                                   *)
(***************************************************************************)
\* opts: "own" when the call's options object is its own, "shared" when the
\* caller passed getPage the options object it shares between its calls;
\* page is the page number the caller asked for and url the one in the
\* request's URL.
\* options['page[number]'] of the shared object: what the last getPage call
\* given the object wrote.
sharedPageNumber(cs) ==
    LET w == { i \in 1..Len(cs) : cs[i].opts = "shared" }
    IN  IF w = {} THEN Unset
        ELSE cs[CHOOSE i \in w : \A j \in w : j <= i].page

\* parseOptions(options), read when get() builds the URL: the page number
\* the options object of call id holds then.
parseOptions(cs, id) ==
    IF cs[id].opts = "shared" THEN sharedPageNumber(cs) ELSE cs[id].page

\* url = ... + this.parseOptions(options);
\* getFromApi(this._limiters[index]!, accessToken, url)
getFromApi(s, id, index, accessToken) ==
    LET s1 == [s EXCEPT !.calls[id].token = accessToken,
                        !.calls[id].url = parseOptions(s.calls, id)] IN
    IF index + 1 <= Len(s.lims) THEN schedule(s1, id, index)
    ELSE [s1 EXCEPT !.calls[id].st = "noLimiter"]

\* Mutant: the index is taken before the limiters are looked at.
getIndexFirst(s, page, viaPager) ==
    LET index == s.cur
        id == Len(s.calls) + 1
        s0 == [s EXCEPT !.cur = getCurrentIndexAndSetNext(s.cur, _keyCount)]
        s1 == [s0 EXCEPT !.calls =
                  Append(@, newCall("get", page, index, "grant", viaPager))]
        accessToken == cacheGet(s.cache, index)
    IN  IF Len(s.lims) <= 0
        THEN [s0 EXCEPT !.calls =
                 Append(@, newCall("get", page, index, "notInitialized", viaPager))]
        ELSE IF accessToken # NoToken
             THEN getFromApi([s1 EXCEPT !.calls[id].hit = TRUE,
                                        !.calls[id].age = now - accessToken.storedAt],
                             id, index, accessToken)
             ELSE s1

\* get(endpoint, options) up to its first suspension; s is the instance
\* state [cur, cache, lims, calls].
get(s, page, viaPager) ==
    IF Len(s.lims) <= 0
    THEN [s EXCEPT !.calls =
              Append(@, newCall("get", page, s.cur, "notInitialized", viaPager))]
    ELSE LET index == s.cur
             id == Len(s.calls) + 1
             s1 == [s EXCEPT
                      !.cur = getCurrentIndexAndSetNext(s.cur, _keyCount),
                      !.calls = Append(@, newCall("get", page, index, "grant", viaPager))]
             accessToken == cacheGet(s.cache, index)
         IN  IF accessToken # NoToken
             THEN getFromApi([s1 EXCEPT !.calls[id].hit = TRUE,
                                        !.calls[id].age = now - accessToken.storedAt],
                             id, index, accessToken)
             ELSE s1

Instance == [cur |-> _currentIndex, cache |-> _cache,
             lims |-> _limiters, calls |-> calls]

Install(s) ==
    /\ _currentIndex' = s.cur
    /\ _cache' = s.cache
    /\ _limiters' = s.lims
    /\ calls' = s.calls

NumGets(cs) == Cardinality({ i \in 1..Len(cs) : cs[i].kind = "get" })

(***************************************************************************)
(* Construction and init()                                                 *)
(***************************************************************************)
\* The state new api42(secrets, concurrentOffset) leaves, for the builds,
\* numbers of secrets, offsets and upstream quotas given. The keys have the
\* same rate limit, as the constructor's comment asks.
Constructed(builds, keyCounts, offsets, quotas) ==
    /\ compiled \in builds
    /\ _keyCount \in keyCounts
    /\ _concurrentOffset \in offsets
    /\ upstream \in { [i \in 0..(_keyCount - 1) |-> rateLimits(i, q)] : q \in quotas }
    /\ _currentIndex = 0
    /\ _limiters = << >>
    /\ _cache = [i \in 0..(_keyCount - 1) |-> NoToken]
    /\ initPc = "new"
    /\ initIndex = 0
    /\ calls = << >>
    /\ pager = [pc |-> "idle", start |-> 0, pageSize |-> 0, first |-> 0,
                pages |-> << >>, total |-> NoTotal]
    /\ now = 0
    /\ ticks = 0

Init == Constructed(BOOLEAN, 1..MaxKeys, 0..MaxOffset, AmpleQuotas)

\* One key with a small hourly quota, for the runs in which hours pass.
InitClock == Constructed({FALSE}, {1}, {0}, ScarceQuotas)

\* init() is called: the loop starts and awaits getAccessToken for index 0.
InitCall ==
    /\ initPc = "new"
    /\ initPc' = "token"
    /\ UNCHANGED <<compiled, _keyCount, _concurrentOffset, upstream,
                   _currentIndex, _limiters, _cache, initIndex, calls, pager,
                   now, ticks>>

\* getAccessToken answers: the token is stored, retrieveToken finds it, and
\* init() awaits getRateLimits.
InitTokenOk ==
    /\ initPc = "token"
    /\ \E t \in GrantedTokens : _cache' = storeToken(_cache, t, initIndex)
    /\ initPc' = "probe"
    /\ UNCHANGED <<compiled, _keyCount, _concurrentOffset, upstream,
                   _currentIndex, _limiters, initIndex, calls, pager, now,
                   ticks>>

\* Mutant: when the probe fails, a limiter is built from a guessed quota.
InitFailGuessing ==
    /\ initPc \in {"token", "probe"}
    /\ initPc' = "failed"
    /\ _limiters' = Append(_limiters,
                           createLimiter(rateLimits(initIndex,
                                                    [secondly_limit |-> MaxSecondly,
                                                     hourly_limit |-> MaxHourly,
                                                     hourly_remaining |-> MaxHourly]),
                                         _concurrentOffset, compiled))
    /\ UNCHANGED <<compiled, _keyCount, _concurrentOffset, upstream,
                   _currentIndex, _cache, initIndex, calls, pager, now, ticks>>

\* getAccessToken throws, or getRateLimits rejects: init() rejects.
InitFail ==
    /\ initPc \in {"token", "probe"}
    /\ initPc' = "failed"
    /\ UNCHANGED <<compiled, _keyCount, _concurrentOffset, upstream,
                   _currentIndex, _limiters, _cache, initIndex, calls, pager,
                   now, ticks>>

\* Mutant: init() schedules no compensation job.
compensateNone(s, i) == s

\* The compensation jobs init() schedules, one per limiter, after its loop.
RECURSIVE compensate(_, _)
compensate(s, i) ==
    IF i >= Len(s.lims) THEN s
    ELSE LET id == Len(s.calls) + 1
             s1 == [s EXCEPT !.calls =
                        Append(@, newCall("noop", 0, i, "queued", FALSE))]
         IN  compensate(schedule(s1, id, i), i + 1)

\* getRateLimits answers with the quota: the limiter is pushed; after the
\* last credential the compensation jobs are scheduled and init() returns.
InitProbeOk ==
    /\ initPc = "probe"
    /\ LET s == [Instance EXCEPT !.lims =
                    Append(@, createLimiter(upstream[initIndex],
                                            _concurrentOffset, compiled))]
       IN  IF initIndex + 1 < _keyCount
           THEN /\ Install(s)
                /\ initPc' = "token"
           ELSE /\ Install(compensate(s, 0))
                /\ initPc' = "done"
    /\ initIndex' = initIndex + 1
    /\ UNCHANGED <<compiled, _keyCount, _concurrentOffset, upstream, pager,
                   now, ticks>>

(***************************************************************************)
(* get(): a direct traffic call, and the end of its grant exchange         *)
(***************************************************************************)
GetCall ==
    /\ NumGets(calls) < MaxCalls
    /\ Install(get(Instance, 0, FALSE))
    /\ UNCHANGED <<compiled, _keyCount, _concurrentOffset, upstream, initPc,
                   initIndex, pager, now, ticks>>

\* retrieveToken's grant exchange answers: the new token is stored and the
\* job is handed to the limiter.
GrantOk(id) ==
    /\ calls[id].st = "grant"
    /\ \E t \in GrantedTokens :
         LET index == calls[id].index
             s == [Instance EXCEPT !.cache = storeToken(@, t, index)]
         IN  Install(getFromApi(s, id, index, t))
    /\ UNCHANGED <<compiled, _keyCount, _concurrentOffset, upstream, initPc,
                   initIndex, pager, now, ticks>>

\* Mutant: the body of the failed exchange is stored as the token.
GrantFailStoring(id) ==
    /\ calls[id].st = "grant"
    /\ calls' = [calls EXCEPT ![id].st = "authError"]
    /\ _cache' = storeToken(_cache, [storedAt |-> now, expires_in |-> 0],
                            calls[id].index)
    /\ UNCHANGED <<compiled, _keyCount, _concurrentOffset, upstream,
                   _currentIndex, _limiters, initPc, initIndex, pager,
                   now, ticks>>

\* getAccessToken throws: get() rejects.
GrantFail(id) ==
    /\ calls[id].st = "grant"
    /\ calls' = [calls EXCEPT ![id].st = "authError"]
    /\ UNCHANGED <<compiled, _keyCount, _concurrentOffset, upstream,
                   _currentIndex, _limiters, _cache, initPc, initIndex, pager,
                   now, ticks>>

(***************************************************************************)
(* The limiter's timers and the transport                                  *)
(***************************************************************************)
StartDue(id) == calls[id].st = "scheduled" /\ calls[id].startAt <= now

\* A registered job's start timer fires.
Start(id) ==
    /\ StartDue(id)
    /\ Install(drainAll(execute(Instance, id), calls[id].index + 1))
    /\ UNCHANGED <<compiled, _keyCount, _concurrentOffset, upstream, initPc,
                   initIndex, pager, now, ticks>>

RefillDue(i) ==
    now >= _limiters[i].lastReservoirRefresh + reservoirRefreshInterval

\* Mutant: the refresh adds to what is left instead of replacing it.
refreshedAdding(lim) == lim.reservoir + lim.reservoirRefreshAmount

\* The reservoir after a refresh: set to reservoirRefreshAmount.
refreshed(lim) == lim.reservoirRefreshAmount

\* The reservoir refresh of the limiter's heartbeat, and the drain after it.
Refill(i) ==
    /\ RefillDue(i)
    /\ Install(drainAll([Instance EXCEPT
                           !.lims[i].reservoir = refreshed(_limiters[i]),
                           !.lims[i].lastReservoirRefresh = now,
                           !.lims[i].refills = @ + 1], i))
    /\ UNCHANGED <<compiled, _keyCount, _concurrentOffset, upstream, initPc,
                   initIndex, pager, now, ticks>>

Responses == {"ok", "rateLimited", "transportError"}

\* Mutant: a request answered with 429 is given to the limiter again.
settleRetrying(s, id, resp) ==
    IF resp = "rateLimited"
    THEN schedule([s EXCEPT !.lims = free(@, s.calls[id].index)],
                  id, s.calls[id].index)
    ELSE drainAll([s EXCEPT !.calls[id].st = "done", !.calls[id].resp = resp,
                            !.lims = free(@, s.calls[id].index)],
                  s.calls[id].index + 1)

\* The job's promise settles with resp; the limiter frees the slot and drains.
settle(s, id, resp) ==
    drainAll([s EXCEPT !.calls[id].st = "done", !.calls[id].resp = resp,
                       !.lims = free(@, s.calls[id].index)],
             s.calls[id].index + 1)

\* A request's fetch settles: a response of any status, or a rejection.
Finish(id) ==
    /\ calls[id].st = "executing"
    /\ ~(pager.pc = "first" /\ pager.first = id)
    /\ \E resp \in Responses : Install(settle(Instance, id, resp))
    /\ UNCHANGED <<compiled, _keyCount, _concurrentOffset, upstream, initPc,
                   initIndex, pager, now, ticks>>

(***************************************************************************)
(* getAllPages                                                             *)
(***************************************************************************)
\* options['page[size]'] as the caller wrote it: a string of digits, or
\* absent (the empty sequence).
PageSizeOptions == { << >>, <<5, 0>>, <<1, 0, 0>> }

RECURSIVE parseInt(_)
parseInt(digits) ==
    IF Len(digits) = 0 THEN 0
    ELSE 10 * parseInt(SubSeq(digits, 1, Len(digits) - 1)) + digits[Len(digits)]

pageSizeOf(option) ==
    IF option # << >> THEN parseInt(option) ELSE DefaultPageSize

\* Mutant: Math.floor in place of Math.ceil.
totalPagesFloor(totalItems, pageSize) == totalItems \div pageSize

\* Math.ceil(totalItems / pageSize), pageSize > 0
totalPages(totalItems, pageSize) == (totalItems + pageSize - 1) \div pageSize

\* Mutant: a missing x-total is read as "one more page".
remainingPagesGuessed(total, pageSize, start) ==
    IF total # NoTotal
    THEN LET last == totalPages(total, pageSize)
         IN  [k \in 1..Max(last - start, 0) |-> start + k]
    ELSE <<start + 1>>

\* Mutant: the loop starts at page 2 whatever `start` is.
remainingPagesFromTwo(total, pageSize, start) ==
    IF total # NoTotal
    THEN LET last == totalPages(total, pageSize)
         IN  [k \in 1..Max(last - 1, 0) |-> 1 + k]
    ELSE << >>

\* The page numbers the loop requests after the first page.
remainingPages(total, pageSize, start) ==
    IF total # NoTotal
    THEN LET last == totalPages(total, pageSize)
         IN  [k \in 1..Max(last - start, 0) |-> start + k]
    ELSE << >>

\* Mutant: the page requests of the loop leave the cursor where it was.
RECURSIVE getPagesOneKey(_, _)
getPagesOneKey(p, numbers) ==
    IF numbers = << >> THEN p
    ELSE getPagesOneKey([s     |-> [get(p.s, Head(numbers), TRUE)
                                       EXCEPT !.cur = p.s.cur],
                         pages |-> Append(p.pages, Len(p.s.calls) + 1)],
                        Tail(numbers))

\* for (i = start + 1; i <= totalPages; i++) pages.push(this.get(url, ...));
\* p is [s, pages]: the instance state and the ids pushed so far.
RECURSIVE getPages(_, _)
getPages(p, numbers) ==
    IF numbers = << >> THEN p
    ELSE getPages([s     |-> get(p.s, Head(numbers), TRUE),
                   pages |-> Append(p.pages, Len(p.s.calls) + 1)],
                  Tail(numbers))

\* getAllPages(url, options, start) up to `await this.get(url, _options)`.
AllPagesCall ==
    /\ pager.pc = "idle"
    /\ NumGets(calls) < MaxCalls
    /\ \E start \in 1..MaxStart, option \in PageSizeOptions :
         pager' = [pager EXCEPT !.pc = "first", !.start = start,
                                !.pageSize = pageSizeOf(option),
                                !.first = Len(calls) + 1]
    /\ Install(get(Instance, pager'.start, TRUE))
    /\ UNCHANGED <<compiled, _keyCount, _concurrentOffset, upstream, initPc,
                   initIndex, now, ticks>>

\* The first page's get() rejected: so does getAllPages.
PagerRejected ==
    /\ pager.pc = "first"
    /\ \/ calls[pager.first].st \in {"notInitialized", "noLimiter", "authError"}
       \/ calls[pager.first].st = "done" /\ calls[pager.first].resp = "transportError"

\* The first page's fetch rejects: get() and getAllPages reject.
FirstPageFails ==
    /\ pager.pc = "first"
    /\ calls[pager.first].st = "executing"
    /\ Install(settle(Instance, pager.first, "transportError"))
    /\ UNCHANGED <<compiled, _keyCount, _concurrentOffset, upstream, initPc,
                   initIndex, pager, now, ticks>>

\* The first page's response arrives: getAllPages resumes, reads x-total,
\* calls get() for every remaining page without awaiting, and returns.
FirstPageDone ==
    /\ pager.pc = "first"
    /\ calls[pager.first].st = "executing"
    /\ \E resp \in {"ok", "rateLimited"}, total \in TotalItems \cup {NoTotal} :
         LET id == pager.first
             numbers == remainingPages(total, pager.pageSize, pager.start)
             p == getPages([s |-> settle(Instance, id, resp), pages |-> <<id>>],
                           numbers)
         IN  /\ NumGets(calls) + Len(numbers) <= MaxCalls
             /\ Install(p.s)
             /\ pager' = [pager EXCEPT !.pc = "done", !.total = total,
                                       !.pages = p.pages]
    /\ UNCHANGED <<compiled, _keyCount, _concurrentOffset, upstream, initPc,
                   initIndex, now, ticks>>

(***************************************************************************)
(* The clock                                                               *)
(***************************************************************************)
\* A timer is due: the event loop runs it before more time passes.
Due ==
    \/ \E i \in 1..Len(_limiters) : RefillDue(i)
    \/ \E id \in 1..Len(calls) : StartDue(id)

StartTimes ==
    { calls[id].startAt : id \in { j \in 1..Len(calls) : calls[j].st = "scheduled" } }

RefillTimes ==
    { _limiters[i].lastReservoirRefresh + reservoirRefreshInterval :
        i \in 1..Len(_limiters) }

\* Time may pass to t: no timer is due now, none is skipped. The clock
\* starts with init().
CanPassTo(t) ==
    /\ initPc # "new"
    /\ ~Due
    /\ \A d \in StartTimes \cup RefillTimes : t <= d

\* Time passes to the next job's start.
StartTick ==
    /\ \E t \in StartTimes : CanPassTo(t) /\ now' = t
    /\ UNCHANGED <<compiled, _keyCount, _concurrentOffset, upstream,
                   _currentIndex, _limiters, _cache, initPc, initIndex, calls,
                   pager, ticks>>

\* Time passes by a step, or to the next refresh of a reservoir.
Tick ==
    /\ ticks < MaxTicks
    /\ \E t \in RefillTimes \cup {now + TickStep} : CanPassTo(t) /\ now' = t
    /\ ticks' = ticks + 1
    /\ UNCHANGED <<compiled, _keyCount, _concurrentOffset, upstream,
                   _currentIndex, _limiters, _cache, initPc, initIndex, calls,
                   pager>>

(***************************************************************************)
(* Specifications                                                          *)
(***************************************************************************)
\* The instance and its callers, while no reservoir is refreshed.
Next ==
    \/ InitCall
    \/ InitTokenOk
    \/ InitFail
    \/ InitProbeOk
    \/ GetCall
    \/ \E id \in 1..Len(calls) : GrantOk(id)
    \/ \E id \in 1..Len(calls) : GrantFail(id)
    \/ \E id \in 1..Len(calls) : Start(id)
    \/ \E id \in 1..Len(calls) : Finish(id)
    \/ AllPagesCall
    \/ FirstPageFails
    \/ FirstPageDone
    \/ StartTick

Spec == Init /\ [][Next]_vars

\* One key and its limiter over the hours.
NextClock ==
    \/ InitCall
    \/ InitTokenOk
    \/ InitFail
    \/ InitProbeOk
    \/ GetCall
    \/ \E id \in 1..Len(calls) : GrantOk(id)
    \/ \E id \in 1..Len(calls) : GrantFail(id)
    \/ \E id \in 1..Len(calls) : Start(id)
    \/ \E id \in 1..Len(calls) : Finish(id)
    \/ \E i \in 1..Len(_limiters) : Refill(i)
    \/ StartTick
    \/ Tick

SpecClock == InitClock /\ [][NextClock]_vars

(***************************************************************************)
(* The constructor                                                         *)
(***************************************************************************)
\* Mutant: the constructor does not look at the length of the list.
noSecretsUnchecked(length) == FALSE

\* secrets.length === 0
noSecrets(length) == length = 0

\* Before `new api42(secrets, concurrentOffset)`: no instance exists.
\* _keyCount and _concurrentOffset hold what the caller is about to pass,
\* secrets.length and concurrentOffset.
InitNew ==
    /\ compiled \in BOOLEAN
    /\ _keyCount \in 0..MaxKeys
    /\ _concurrentOffset \in 0..MaxOffset
    /\ upstream \in { [i \in 0..(MaxKeys - 1) |-> rateLimits(i, q)] : q \in AmpleQuotas }
    /\ _currentIndex = Unset
    /\ _limiters = << >>
    /\ _cache = << >>
    /\ initPc = "absent"
    /\ initIndex = 0
    /\ calls = << >>
    /\ pager = [pc |-> "idle", start |-> 0, pageSize |-> 0, first |-> 0,
                pages |-> << >>, total |-> NoTotal]
    /\ now = 0
    /\ ticks = 0

\* The constructor runs: it throws on an empty list, and otherwise sets the
\* fields of the new instance.
New ==
    /\ initPc = "absent"
    /\ IF noSecrets(_keyCount)
       THEN /\ initPc' = "threw"
            /\ UNCHANGED <<_cache, _limiters, _currentIndex>>
       ELSE /\ initPc' = "new"
            /\ _cache' = [i \in 0..(_keyCount - 1) |-> NoToken]
            /\ _limiters' = << >>
            /\ _currentIndex' = 0
    /\ UNCHANGED <<compiled, _keyCount, _concurrentOffset, upstream,
                   initIndex, calls, pager, now, ticks>>

\* An instance exists.
Built == initPc \notin {"absent", "threw"}

\* Construction, and the instance's life after it.
NextNew ==
    \/ New
    \/ InitCall
    \/ InitTokenOk
    \/ InitFail
    \/ InitProbeOk
    \/ Built /\ GetCall
    \/ \E id \in 1..Len(calls) : GrantOk(id)
    \/ \E id \in 1..Len(calls) : GrantFail(id)
    \/ \E id \in 1..Len(calls) : Start(id)
    \/ \E id \in 1..Len(calls) : Finish(id)
    \/ StartTick

SpecNew == InitNew /\ [][NextNew]_vars

(***************************************************************************)
(* init() called again                                                     *)
(***************************************************************************)
\* init() is called on an instance whose earlier init() has returned or
\* rejected: its loop starts again at index 0 and pushes onto the limiters
\* that are there.
InitAgain ==
    /\ initPc \in {"failed", "done"}
    /\ Len(_limiters) + _keyCount <= MaxLimiters
    /\ initPc' = "token"
    /\ initIndex' = 0
    /\ UNCHANGED <<compiled, _keyCount, _concurrentOffset, upstream,
                   _currentIndex, _limiters, _cache, calls, pager, now, ticks>>

\* An instance of the source, constructed without an offset.
InitSource == Constructed({FALSE}, 1..MaxKeys, {0}, AmpleQuotas)

NextInits ==
    \/ InitCall
    \/ InitAgain
    \/ InitTokenOk
    \/ InitFail
    \/ InitProbeOk
    \/ GetCall
    \/ \E id \in 1..Len(calls) : GrantOk(id)
    \/ \E id \in 1..Len(calls) : GrantFail(id)
    \/ \E id \in 1..Len(calls) : Start(id)
    \/ \E id \in 1..Len(calls) : Finish(id)
    \/ StartTick

SpecInits == InitSource /\ [][NextInits]_vars

(***************************************************************************)
(* getPage                                                                 *)
(***************************************************************************)
\* getPage(url, page, options) up to the suspension of get(): the page
\* number is written into the options object, get() checks the limiters,
\* takes the index and awaits retrieveToken, which returns the cached token
\* or awaits the grant exchange.
getPage(s, page, opts) ==
    LET c == [newCall("get", page, s.cur, "notInitialized", FALSE)
                 EXCEPT !.opts = opts]
    IN  IF Len(s.lims) <= 0 THEN [s EXCEPT !.calls = Append(@, c)]
        ELSE LET accessToken == cacheGet(s.cache, s.cur) IN
             [s EXCEPT
                !.cur = getCurrentIndexAndSetNext(s.cur, _keyCount),
                !.calls = Append(@,
                    IF accessToken # NoToken
                    THEN [c EXCEPT !.st = "resolved", !.token = accessToken,
                                   !.hit = TRUE,
                                   !.age = now - accessToken.storedAt]
                    ELSE [c EXCEPT !.st = "grant"])]

GetPageCall ==
    /\ NumGets(calls) < MaxCalls
    /\ \E page \in 1..MaxStart, opts \in {"own", "shared"} :
         Install(getPage(Instance, page, opts))
    /\ UNCHANGED <<compiled, _keyCount, _concurrentOffset, upstream, initPc,
                   initIndex, pager, now, ticks>>

\* The calls whose get() waits to resume with the cached token.
Resolved == { id \in 1..Len(calls) : calls[id].st = "resolved" }

\* get() resumes after `await this.retrieveToken(index)`, the calls in the
\* order in which they were suspended: it builds the URL from the options
\* object and hands the job to the limiter.
Resume(id) ==
    /\ id \in Resolved
    /\ \A j \in Resolved : id <= j
    /\ Install(getFromApi(Instance, id, calls[id].index, calls[id].token))
    /\ UNCHANGED <<compiled, _keyCount, _concurrentOffset, upstream, initPc,
                   initIndex, pager, now, ticks>>

\* The callers of getPage. While a get() waits to resume, only the code
\* that runs in the same turn of the event loop, more getPage calls, comes
\* before it; answers and timers come after.
NextPages ==
    \/ GetPageCall
    \/ \E id \in 1..Len(calls) : Resume(id)
    \/ Resolved = {} /\ InitCall
    \/ Resolved = {} /\ InitTokenOk
    \/ Resolved = {} /\ InitFail
    \/ Resolved = {} /\ InitProbeOk
    \/ Resolved = {} /\ \E id \in 1..Len(calls) : GrantOk(id)
    \/ Resolved = {} /\ \E id \in 1..Len(calls) : GrantFail(id)
    \/ Resolved = {} /\ \E id \in 1..Len(calls) : Start(id)
    \/ Resolved = {} /\ \E id \in 1..Len(calls) : Finish(id)
    \/ Resolved = {} /\ StartTick

SpecPages == InitSource /\ [][NextPages]_vars

(***************************************************************************)
(* Quotas of every size                                                    *)
(***************************************************************************)
\* Probes that report any per-second limit with an ample hourly quota, and
\* the small hourly quotas.
AnyRateQuotas ==
    { [ secondly_limit |-> l, hourly_limit |-> MaxCalls + 1,
        hourly_remaining |-> MaxCalls + 1 ] : l \in 1..MaxSecondly }

InitRates ==
    Constructed({FALSE}, 1..MaxKeys, {0}, AnyRateQuotas \cup ScarceQuotas)

\* The instance and its callers until the first refresh of a reservoir.
NextRates ==
    \/ InitCall
    \/ InitTokenOk
    \/ InitFail
    \/ InitProbeOk
    \/ GetCall
    \/ \E id \in 1..Len(calls) : GrantOk(id)
    \/ \E id \in 1..Len(calls) : GrantFail(id)
    \/ \E id \in 1..Len(calls) : Start(id)
    \/ \E id \in 1..Len(calls) : Finish(id)
    \/ StartTick

SpecRates == InitRates /\ [][NextRates]_vars

(***************************************************************************)
(* The limiter in the long run                                             *)
(***************************************************************************)
\* Probes that report small limits, a limit of 0 requests an hour included.
LiveQuotas ==
    { q \in [ secondly_limit   : 1..2,
              hourly_limit     : 0..MaxHourly,
              hourly_remaining : 0..MaxHourly ] :
        q.hourly_remaining <= q.hourly_limit }

InitLive == Constructed(BOOLEAN, {1}, {0}, LiveQuotas)

\* Time passes to the next refresh of a reservoir that a queued job waits
\* for.
RefillTick ==
    /\ ticks < MaxCalls + 1
    /\ \E i \in 1..Len(_limiters) :
         /\ _limiters[i].queue # << >>
         /\ _limiters[i].reservoir = 0
         /\ LET t == _limiters[i].lastReservoirRefresh + reservoirRefreshInterval
            IN  CanPassTo(t) /\ now' = t
    /\ ticks' = ticks + 1
    /\ UNCHANGED <<compiled, _keyCount, _concurrentOffset, upstream,
                   _currentIndex, _limiters, _cache, initPc, initIndex, calls,
                   pager>>

\* init() and a caller of getAllPages, whose first page is a get() like any
\* other, over the hours.
NextLive ==
    \/ InitCall
    \/ InitTokenOk
    \/ InitFail
    \/ InitProbeOk
    \/ \E id \in 1..Len(calls) : GrantOk(id)
    \/ \E id \in 1..Len(calls) : GrantFail(id)
    \/ \E id \in 1..Len(calls) : Start(id)
    \/ \E id \in 1..Len(calls) : Finish(id)
    \/ \E i \in 1..Len(_limiters) : Refill(i)
    \/ AllPagesCall
    \/ FirstPageFails
    \/ FirstPageDone
    \/ StartTick
    \/ RefillTick

\* The jobs an instance of the model can have: requests and compensation
\* jobs.
MaxJobs == MaxCalls + MaxKeys

\* The limiter's timers fire, time passes to them, and every transport call
\* that was started is answered.
FairLive ==
    /\ \A id \in 1..MaxJobs :
          /\ WF_vars(id <= Len(calls) /\ Start(id))
          /\ WF_vars(id <= Len(calls) /\ Finish(id))
    /\ \A i \in 1..MaxKeys : WF_vars(i <= Len(_limiters) /\ Refill(i))
    /\ WF_vars(FirstPageDone \/ FirstPageFails)
    /\ WF_vars(StartTick)
    /\ WF_vars(RefillTick)

SpecLive == InitLive /\ [][NextLive]_vars /\ FairLive

(***************************************************************************)
(* Claims                                                                  *)
(***************************************************************************)
Ids == 1..Len(calls)
Gets == { id \in Ids : calls[id].kind = "get" }

\* The jobs of limiter i whose function has started and not yet settled.
InFlight(i) == { id \in Ids : calls[id].index = i - 1 /\ calls[id].st = "executing" }

\* C1: a limiter built from a quota with per-second limit L, on an instance
\* constructed with concurrency offset k, never has more than L - k jobs
\* started and not yet finished.
C1_InFlightAtMostLimitMinusOffset ==
    \A i \in 1..Len(_limiters) :
        Cardinality(InFlight(i))
            <= _limiters[i].limit.secondly_limit - _concurrentOffset

\* The get() calls that went past the initialization check, in call order:
\* each of them called getCurrentIndexAndSetNext once.
Dispatched == SelectSeq(calls, LAMBDA c : c.kind = "get" /\ c.st # "notInitialized")

\* C2: from a fresh instance the j-th call of getCurrentIndexAndSetNext
\* returns (j - 1) mod N, so N calls return 0..N-1 in increasing order and
\* call N + 1 returns 0 again; the cursor stays within 0..N-1.
C2_CursorRoundRobin ==
    /\ _currentIndex \in 0..(_keyCount - 1)
    /\ _currentIndex = Len(Dispatched) % _keyCount
    /\ \A j \in 1..Len(Dispatched) : Dispatched[j].index = (j - 1) % _keyCount

\* C2 witness: two keys, and the third call got index 0 again.
C2_Witness ==
    /\ _keyCount >= 2
    /\ Len(Dispatched) = _keyCount + 1
    /\ Dispatched[_keyCount].index = _keyCount - 1
    /\ Dispatched[_keyCount + 1].index = 0

\* C3: every traffic call made before init() has completed for all keys is
\* rejected with the not-initialized error.
C3_RejectedUntilInitialized ==
    \A id \in Gets : ~calls[id].ready => calls[id].st = "notInitialized"

\* The page calls of getAllPages, in call order.
PageCalls == { id \in Gets : calls[id].viaPager }

PagesAre(first, n) ==
    /\ Len(pager.pages) = n
    /\ Cardinality(PageCalls) = n
    /\ \A j \in 1..n : /\ pager.pages[j] \in PageCalls
                       /\ calls[pager.pages[j]].page = first + j - 1

\* n is the least number of pages of size S that hold T items.
IsCeil(n, T, S) == n * S >= T /\ (n = 0 \/ (n - 1) * S < T)

CountedFromOne ==
    pager.pc = "done" /\ pager.start = 1 /\ pager.total # NoTotal

\* C8, as stated: with start = 1 and x-total = T, getAllPages issues exactly
\* ceil(T / S) page requests, for the pages 1..ceil(T / S).
C8_Original ==
    CountedFromOne =>
        \E n \in 0..MaxCalls : IsCeil(n, pager.total, pager.pageSize) /\ PagesAre(1, n)

\* C8, amended: with start = 1 and x-total = T, getAllPages issues exactly
\* max(1, ceil(T / S)) page requests, for the pages 1..max(1, ceil(T / S)),
\* each once, and returns one entry per request.
C8_PagesFromOne ==
    CountedFromOne =>
        \E n \in 0..MaxCalls :
            IsCeil(n, pager.total, pager.pageSize) /\ PagesAre(1, Max(1, n))

\* C8 witness: 250 items in pages of 100 were fetched as pages 1, 2, 3.
C8_Witness ==
    /\ CountedFromOne
    /\ pager.total = 250 /\ pager.pageSize = 100
    /\ Len(pager.pages) = 3

\* C9: without an x-total header getAllPages returns exactly one page fetch
\* and issues exactly one request, the one for page `start`.
C9_NoTotalOnePage ==
    pager.pc = "done" /\ pager.total = NoTotal => PagesAre(pager.start, 1)

\* C9 witness: the call for page 2 in pages of 50 came back without x-total.
C9_Witness ==
    /\ pager.pc = "done" /\ pager.total = NoTotal
    /\ pager.start = 2 /\ pager.pageSize = 50
    /\ calls[pager.first].st = "done"

\* The jobs limiter i has registered, and those of its refresh cycle c.
Admitted(i) == { id \in Ids : calls[id].index = i - 1 /\ calls[id].admitAt # Unset }
AdmittedIn(i, c) == { id \in Admitted(i) : calls[id].cycle = c }

\* C4: a limiter whose reservoir starts at hourly_remaining = R admits
\* exactly R jobs before the first refresh: never more, and a job waits
\* behind a free slot only once R have been admitted.
C4_AdmitsRemainingBeforeRefill ==
    \A i \in 1..Len(_limiters) :
        LET lim == _limiters[i] IN
        lim.refills = 0 =>
            /\ Cardinality(Admitted(i)) <= lim.limit.hourly_remaining
            /\ (lim.queue # << >> /\ lim.running < lim.maxConcurrent
                    => Cardinality(Admitted(i)) = lim.limit.hourly_remaining)

\* C4 witness: before the first refresh R >= 2 jobs are admitted and the
\* next one is queued behind a free slot.
C4_Witness ==
    \E i \in 1..Len(_limiters) :
        LET lim == _limiters[i] IN
        /\ lim.refills = 0
        /\ lim.limit.hourly_remaining >= 2
        /\ Cardinality(Admitted(i)) = lim.limit.hourly_remaining
        /\ lim.queue # << >> /\ lim.running < lim.maxConcurrent

\* C5, as stated: within any window of 3,600,000 ms a limiter admits at
\* most hourly_limit jobs.
C5_RollingHour ==
    \A i \in 1..Len(_limiters) : \A a \in Admitted(i) :
        Cardinality({ b \in Admitted(i) :
                        /\ calls[a].admitAt <= calls[b].admitAt
                        /\ calls[b].admitAt < calls[a].admitAt + reservoirRefreshInterval })
            <= _limiters[i].limit.hourly_limit

\* C5, amended: between two consecutive refreshes of its reservoir, which
\* are at least 3,600,000 ms apart, a limiter admits at most hourly_limit
\* jobs, and before the first refresh at most hourly_remaining.
C5_PerRefreshCycle ==
    \A i \in 1..Len(_limiters) :
        LET lim == _limiters[i] IN
        /\ lim.lastReservoirRefresh >= lim.created + lim.refills * reservoirRefreshInterval
        /\ Cardinality(AdmittedIn(i, 0)) <= lim.limit.hourly_remaining
        /\ \A c \in 1..lim.refills :
               Cardinality(AdmittedIn(i, c)) <= lim.limit.hourly_limit

\* C5 witness: jobs were admitted before the refresh, and after it as many
\* as hourly_limit allows.
C5_Witness ==
    \E i \in 1..Len(_limiters) :
        /\ _limiters[i].refills = 1
        /\ AdmittedIn(i, 0) # {}
        /\ Cardinality(AdmittedIn(i, 1)) = _limiters[i].limit.hourly_limit

\* C6: a token is served from the cache only while it is younger than its
\* expires_in less 20 seconds: the first retrieval after that is a grant
\* exchange (expires_in = 40: no cache hit at an age of 20 s or more).
C6_CachedUntilSafetyMargin ==
    \A id \in Gets :
        calls[id].hit => calls[id].age < (calls[id].token.expires_in - 20) * 1000

\* The jobs whose transport call has started.
Started == { id \in Gets : calls[id].st \in {"executing", "done"} }

\* C7: when a request job starts its transport call, less than expires_in
\* has passed since its bearer token was granted.
C7_TokenFreshAtStart ==
    \A id \in Started :
        calls[id].startAt - calls[id].token.storedAt
            < calls[id].token.expires_in * 1000

\* C10: a job that stayed queued for longer than its expiration is
\* abandoned: the limiter never registers or executes it afterwards.
C10_ExpiredJobNeverRuns ==
    \A id \in Ids :
        calls[id].admitAt # Unset
            => calls[id].admitAt - calls[id].submitAt <= jobExpiration

\* The get() calls that took an index from the cursor and were not rejected
\* by a failed grant exchange, in call order.
Advancing ==
    SelectSeq(calls, LAMBDA c : c.kind = "get"
                                  /\ c.st \notin {"notInitialized", "authError"})

\* C11: the cursor advances once per dispatched call, in call order: the
\* k-th of them has index (k - 1) mod N, and a call rejected as not
\* initialized or by a failed token grant has not advanced the cursor.
C11_CursorAdvancesPerDispatchedCall ==
    /\ _currentIndex = Len(Advancing) % _keyCount
    /\ \A k \in 1..Len(Advancing) : Advancing[k].index = (k - 1) % _keyCount

\* C12: construction with an empty credential list fails; with at least one
\* credential, whatever the offset, it succeeds and leaves an uninitialized
\* instance: no limiter, cursor 0, no token cached, no network call made
\* (until init() is called, every traffic call is rejected at once).
C12_ConstructionChecksSecrets ==
    /\ initPc = "threw" => _keyCount = 0
    /\ Built => _keyCount >= 1
    /\ initPc = "new" =>
          /\ _limiters = << >>
          /\ _currentIndex = 0
          /\ DOMAIN _cache = 0..(_keyCount - 1)
          /\ \A i \in DOMAIN _cache : _cache[i] = NoToken
          /\ \A id \in 1..Len(calls) : calls[id].st = "notInitialized"
          /\ now = 0

\* C12 witness: an instance constructed from MaxKeys credentials and a
\* concurrency offset.
C12_Witness ==
    /\ initPc = "new"
    /\ _keyCount = MaxKeys
    /\ _concurrentOffset > 0
    /\ _limiters = << >>

\* The places job id has in the queues of the limiters.
Queued(id) ==
    { <<i, k>> \in (1..Len(_limiters)) \X Ids :
        k <= Len(_limiters[i].queue) /\ _limiters[i].queue[k] = id }

\* C13: there is no retry. A dispatched get() is one job of one limiter and
\* that job makes at most one transport call; once the call is answered,
\* with any status or a transport failure, the answer is the caller's and
\* the job is neither queued nor run again.
C13_NoRetry ==
    \A id \in Gets :
        /\ calls[id].fetches = (IF calls[id].st \in {"executing", "done"} THEN 1 ELSE 0)
        /\ Cardinality(Queued(id)) = (IF calls[id].st = "queued" THEN 1 ELSE 0)
        /\ \A q \in Queued(id) : q[1] = calls[id].index + 1
        /\ calls[id].resp # "none" <=> calls[id].st = "done"

\* C13 witness: one call was answered 429 and one failed in transport, each
\* after a single transport call, and a later job has run since.
C13_Witness ==
    \E a, b, c \in Gets :
        /\ calls[a].st = "done" /\ calls[a].resp = "rateLimited"
        /\ calls[b].st = "done" /\ calls[b].resp = "transportError"
        /\ calls[a].fetches = 1 /\ calls[b].fetches = 1
        /\ c > a /\ c > b /\ calls[c].st = "executing"

\* A call that was rejected by a failed grant left no job and holds no token.
NothingFromFailedGrant ==
    \A id \in Gets :
        calls[id].st = "authError" =>
            /\ calls[id].token = NoToken
            /\ calls[id].submitAt = Unset
            /\ calls[id].fetches = 0
            /\ Queued(id) = {}

\* The step in which the grant exchange of a call fails writes neither the
\* cache nor a limiter.
FailedGrantStep ==
    \A id \in Gets :
        calls[id].st = "grant" /\ calls'[id].st = "authError" =>
            /\ _cache' = _cache
            /\ _limiters' = _limiters

\* A call that finds no token for its credential starts a grant exchange,
\* whatever happened to earlier exchanges; when the exchange succeeds the
\* token is cached and the call goes on with it.
GrantAgainStep ==
    /\ Len(calls') > Len(calls) =>
          LET c == calls'[Len(calls')] IN
          c.kind = "get" /\ c.st # "notInitialized"
              /\ cacheGet(_cache, c.index) = NoToken => c.st = "grant"
    /\ \A id \in Gets :
          calls[id].st = "grant" /\ calls'[id].st \notin {"grant", "authError"} =>
              /\ calls'[id].token \in GrantedTokens
              /\ _cache'[calls[id].index] = calls'[id].token

\* C14: when the grant exchange for credential i fails, the operation is
\* rejected with the auth error, no job reaches limiter i, the failed
\* exchange leaves the cache entry as it was (empty), and the next operation
\* that needs the token makes the exchange again and goes on if it succeeds.
C14_FailedGrantLeavesNothing ==
    /\ []NothingFromFailedGrant
    /\ [][FailedGrantStep /\ GrantAgainStep]_vars

\* C14 witness: after a call was rejected by a failed grant, a later call
\* for the same credential was granted a new token and runs with it.
C14_Witness ==
    \E a, b \in Gets :
        /\ a < b
        /\ calls[a].index = calls[b].index
        /\ calls[a].st = "authError"
        /\ ~calls[b].hit
        /\ calls[b].st = "executing"
        /\ _cache[calls[b].index] = calls[b].token

\* Every limiter was built, once the credential's token was stored, from
\* what the probe of its credential reported; init() has built one limiter
\* for each credential it is through with, none for one that failed.
LimitersFromProbes ==
    /\ Len(_limiters) = initIndex
    /\ initPc = "done" => initIndex = _keyCount
    /\ initPc = "failed" => initIndex < _keyCount
    /\ \A i \in 1..Len(_limiters) :
          /\ _limiters[i].limit = upstream[i - 1]
          /\ _cache[i - 1] # NoToken

\* init() goes token, probe, limiter: the probe is awaited only after the
\* token was stored, a limiter is pushed only by the answer of the probe,
\* and a rejected init() pushes nothing more.
InitOrderStep ==
    /\ initPc' = "probe" /\ initPc # "probe" =>
          initPc = "token" /\ _cache'[initIndex] \in GrantedTokens
    /\ _limiters' # _limiters /\ Len(_limiters') # Len(_limiters) =>
          /\ initPc = "probe"
          /\ _cache[initIndex] # NoToken
          /\ Len(_limiters') = Len(_limiters) + 1
          /\ _limiters'[Len(_limiters')].limit = upstream[initIndex]
    /\ initPc = "failed" => initPc' = "failed" /\ Len(_limiters') = Len(_limiters)

\* C15: for each credential init() does token grant, quota probe, limiter
\* construction in this order; when the grant or the probe fails init()
\* rejects and builds no limiter for the credential, and no limiter is ever
\* built from a quota that a successful probe did not report.
C15_LimiterOnlyFromProbe ==
    /\ []LimitersFromProbes
    /\ [][InitOrderStep]_vars

\* C15 witness: with two credentials the first has its limiter; the probe
\* of the second failed after its token was granted, and init() rejected.
C15_Witness ==
    /\ _keyCount = 2
    /\ initPc = "failed"
    /\ Len(_limiters) = 1
    /\ _cache[1] # NoToken

\* The jobs of limiter i whose function was invoked.
StartedOn(i) ==
    { id \in Ids : calls[id].index = i - 1 /\ calls[id].st \in {"executing", "done"} }

\* A job's function is invoked at the time the limiter set for it.
StartsOnTime ==
    \A id \in Ids :
        calls[id].st \notin {"executing", "done"}
            /\ calls'[id].st \in {"executing", "done"} => calls'[id].startAt = now'

SpacedStarts ==
    \A i \in 1..Len(_limiters) : \A a, b \in StartedOn(i) :
        a # b /\ calls[a].startAt <= calls[b].startAt =>
            calls[b].startAt - calls[a].startAt
                >= (1000 \div _limiters[i].limit.secondly_limit) + 25

\* C16: any two job starts of a limiter with per-second limit L are at
\* least floor(1000 / L) + 25 ms apart, whatever is queued and however much
\* concurrency is free.
C16_StartsSpaced ==
    /\ []SpacedStarts
    /\ [][StartsOnTime]_vars

\* C16 witness: a job that was submitted while a slot was free started
\* exactly floor(1000 / L) + 25 ms after the job before it, which still runs.
C16_Witness ==
    \E i \in 1..Len(_limiters) : \E a, b \in StartedOn(i) :
        /\ calls[a].st = "executing" /\ calls[b].st = "executing"
        /\ _limiters[i].maxConcurrent >= 2
        /\ calls[b].submitAt = calls[a].startAt
        /\ calls[b].startAt - calls[a].startAt
               = (1000 \div _limiters[i].limit.secondly_limit) + 25

\* C17: across init() and get() calls, init() called again included, a
\* request dispatched with credential index i is scheduled on the limiter
\* that was built from credential i's own probe.
C17_DispatchedOnOwnLimiter ==
    \A id \in Gets :
        calls[id].submitAt # Unset =>
            _limiters[calls[id].index + 1].limit.id = calls[id].index

\* C18: every getPage(url, p, options) call issues a request whose
\* page[number] is p, also when several pending calls were given the same
\* options object.
C18_PageNumberIsArgument ==
    \A id \in Gets : calls[id].url # Unset => calls[id].url = calls[id].page

\* The index of the j-th page request of getAllPages.
PageIndex(j) == calls[pager.pages[j]].index

\* The traffic calls others made while getAllPages awaited its first page.
MadeMeanwhile ==
    { k \in Gets : pager.first < k /\ k < pager.pages[2] }

\* C19, as stated: with cursor c before the call, the j-th page request of
\* getAllPages is dispatched to credential (c + j - 1) mod N.
C19_Original ==
    pager.pc = "done" =>
        \A j \in 1..Len(pager.pages) :
            PageIndex(j) = (PageIndex(1) + j - 1) % _keyCount

\* The page requests after the first are consecutive calls, dispatched to
\* consecutive credentials; they follow the first page's credential when no
\* other traffic call was made while the first page was awaited.
PagesInRotation ==
    pager.pc = "done" =>
        LET n == Len(pager.pages) IN
        /\ pager.pages[1] = pager.first
        /\ \A j \in 2..n :
              /\ pager.pages[j] = pager.pages[2] + j - 2
              /\ PageIndex(j) = (PageIndex(2) + j - 2) % _keyCount
        /\ n >= 2 /\ MadeMeanwhile = {} =>
              \A j \in 1..n : PageIndex(j) = (PageIndex(1) + j - 1) % _keyCount

\* getAllPages resumes when the first page is answered and returns in the
\* same step: the cursor has moved by the number of the remaining page
\* requests, none of which is settled.
PagerReturnStep ==
    pager.pc = "first" /\ pager'.pc = "done" =>
        LET n == Len(pager'.pages) IN
        /\ calls'[pager'.pages[1]].st = "done"
        /\ _currentIndex' = (_currentIndex + n - 1) % _keyCount
        /\ \A j \in 2..n : calls'[pager'.pages[j]].st # "done"

\* C19, amended: getAllPages awaits only the first page and then issues all
\* remaining page requests without awaiting, through get(): they go to
\* consecutive credentials from the cursor as it is when the first page is
\* answered, and the cursor advances by their number before getAllPages
\* returns; the j-th page request goes to (c + j - 1) mod N when no other
\* traffic call was made while the first page was awaited.
C19_PagesInRotation ==
    /\ []PagesInRotation
    /\ [][PagerReturnStep]_vars

\* C19 witness: with two credentials, three pages went to 0, 1, 0.
C19_Witness ==
    /\ _keyCount = 2
    /\ pager.pc = "done"
    /\ Len(pager.pages) = 3
    /\ MadeMeanwhile = {}
    /\ PageIndex(1) = 0 /\ PageIndex(2) = 1 /\ PageIndex(3) = 0

\* C20: with x-total = T, page size S and any start >= 1, getAllPages
\* issues exactly max(1, ceil(T / S) - start + 1) requests: page start, then
\* start + 1 .. ceil(T / S) in increasing order, none repeated or skipped;
\* only page start when start >= ceil(T / S).
C20_PagesFromStart ==
    pager.pc = "done" /\ pager.total # NoTotal =>
        \E last \in 0..MaxTotalSteps :
            /\ IsCeil(last, pager.total, pager.pageSize)
            /\ PagesAre(pager.start, Max(1, last - pager.start + 1))
            /\ \A j \in 1..(Len(pager.pages) - 1) :
                  pager.pages[j] < pager.pages[j + 1]

\* C20 witness: from start = 2, 250 items in pages of 100 were fetched as
\* pages 2 and 3.
C20_Witness ==
    /\ pager.pc = "done"
    /\ pager.start = 2 /\ pager.total = 250 /\ pager.pageSize = 100
    /\ Len(pager.pages) = 2
    /\ calls[pager.pages[2]].page = 3

\* The compensation jobs of limiter i, and the caller requests it admitted.
Noops(i) == { id \in Ids : calls[id].kind = "noop" /\ calls[id].index = i - 1 }
CallerAdmitted(i) == { id \in Admitted(i) : calls[id].kind = "get" }

\* No caller request reached limiter i from a call made before init() had
\* completed.
NoEarlyTraffic(i) ==
    \A id \in Gets :
        calls[id].index = i - 1 /\ calls[id].submitAt # Unset => calls[id].ready

StartedWithinSecond(i, a) ==
    { b \in StartedOn(i) :
        /\ calls[a].startAt <= calls[b].startAt
        /\ calls[b].startAt <= calls[a].startAt + 1000 }

\* C22: with the spacing floor(1000 / L) + 25 ms, L starts take more than
\* 1000 ms to be followed by another, and a limiter starts at most L jobs
\* within any window of 1000 ms.
C22_AtMostLimitPerSecond ==
    \A i \in 1..Len(_limiters) :
        LET L == _limiters[i].limit.secondly_limit IN
        /\ L * _limiters[i].minTime > 1000
        /\ \A a \in StartedOn(i) : Cardinality(StartedWithinSecond(i, a)) <= L

\* C22 witness: a limiter with L = 2 started two jobs within one second and
\* a third job after it.
C22_Witness ==
    \E i \in 1..Len(_limiters) : \E a \in StartedOn(i) :
        /\ _limiters[i].limit.secondly_limit = 2
        /\ Cardinality(StartedWithinSecond(i, a)) = 2
        /\ \E c \in StartedOn(i) : calls[c].startAt > calls[a].startAt + 1000

\* The traffic calls that were rejected as not initialized.
Rejected == { id \in Gets : calls[id].st = "notInitialized" }

\* A rejected call has no token, no job and no transport call.
RejectedDidNothing ==
    \A id \in Rejected :
        /\ calls[id].token = NoToken
        /\ calls[id].submitAt = Unset
        /\ calls[id].fetches = 0
        /\ Queued(id) = {}

\* The step of a call that is rejected as not initialized leaves the
\* cursor, the cache, the limiters, init() and every other call as they
\* were; a rejected call stays rejected.
RejectedStep ==
    /\ Len(calls') = Len(calls) + 1 /\ calls'[Len(calls')].st = "notInitialized" =>
          /\ _currentIndex' = _currentIndex
          /\ _cache' = _cache
          /\ _limiters' = _limiters
          /\ initPc' = initPc /\ initIndex' = initIndex
          /\ SubSeq(calls', 1, Len(calls)) = calls
    /\ \A id \in Rejected : calls'[id] = calls[id]

\* C23: a traffic call rejected as not initialized changes nothing: the
\* cursor, the token cache and the limiter list are unchanged and no grant
\* exchange, quota probe or transport call is made.
C23_RejectedChangesNothing ==
    /\ []RejectedDidNothing
    /\ [][RejectedStep]_vars

\* C23 witness: with two credentials a call was rejected before init();
\* the first call after it got index 0 and runs.
C23_Witness ==
    \E a, b \in Gets :
        /\ _keyCount = 2
        /\ a \in Rejected
        /\ \A id \in Gets : id < b => id \in Rejected
        /\ a < b
        /\ calls[b].st = "executing" /\ calls[b].index = 0

\* Job id waits in its limiter, whose concurrency offset (the per-second
\* limit less maxConcurrent) is smaller than the per-second limit and whose
\* hourly_limit is at least 1.
WaitsInLiveLimiter(id) ==
    /\ id \in Ids
    /\ calls[id].st \in {"queued", "scheduled"}
    /\ LET lim == _limiters[calls[id].index + 1] IN
       /\ lim.limit.secondly_limit - lim.maxConcurrent < lim.limit.secondly_limit
       /\ lim.limit.hourly_limit >= 1

HasStarted(id) == id \in Ids /\ calls[id].st \in {"executing", "done"}

\* C24: in a limiter with offset below its per-second limit and
\* hourly_limit >= 1, when started jobs finish and the hourly refresh keeps
\* firing, every job submitted (compensation jobs and page requests
\* included) is eventually started.
C24_EveryJobStarts ==
    \A id \in 1..MaxJobs : WaitsInLiveLimiter(id) ~> HasStarted(id)

\* C24 witness: a page request of getAllPages that was queued behind an
\* empty reservoir runs after the refresh.
C24_Witness ==
    \E id \in Gets :
        /\ calls[id].viaPager
        /\ calls[id].st = "executing"
        /\ calls[id].cycle >= 1
        /\ calls[id].submitAt < calls[id].admitAt

====
